---- MODULE Spec2Model ----
(***************************************************************************)
(* Subscription lifecycle of the role-subscription bot: the store of       *)
(* Subscription documents, the add / remove commands, the hourly expiry    *)
(* sweep and the 5-minute warning sweep.                                   *)
(*                                                                         *)
(* Time is counted in whole minutes since the start of the run; every      *)
(* duration of the source (written there in milliseconds) is a whole       *)
(* number of minutes.  Each handler is one action; what its collaborators  *)
(* (the guild, the role API, the message API) answer is chosen by \E.      *)
(* Every query and loop ranges over DOMAIN store, so the subscribers of a  *)
(* specification are the keys of its initial store.  TickSpec runs the     *)
(* warning sweep on its cron schedule; AnyMonthsSpec and StaleSpec call    *)
(* the add command with any months value and on expired records;           *)
(* AddRaceSpec, WarnRaceSpec, CommandRaceSpec, ExpiryRaceSpec, BatchSpec,  *)
(* WarnCommandSpec and MemberUpdateSpec follow calls await by await, so    *)
(* that calls in flight at once interleave.                                *)
(***************************************************************************)
EXTENDS Integers, FiniteSets, Sequences, TLC

(* ------------------------------ bounds --------------------------------- *)

\* the clock stops here: one minute after the expiry of a 5-month record
\* created at minute 0
MaxNow == 216001

\* how many minutes on either side of each threshold instant the clock visits
Slack == 1

\* the subscribers (the keys of the store)
Users == {"u1"}

\* months values the add command is called with
MonthsIn == {5, 6}

\* the warnings of one kind delivered about one expiry that are counted
MaxSends == 2

\* months values outside 1..10 that addSubscription is called with
BadMonths == {-1, 0, 11}

\* the subscribers of the interleaved remove commands
RaceUsers == {"u1", "u2"}

\* months values of the add commands that run interleaved
RaceMonths == {1, 2}

\* the latest minute at which the record of the cron schedule is created
MaxStart == 4

\* the longest delay, in clock units, between a tick of the warning cron and
\* the instant at which its queries read new Date()
MaxJitter == 2

(* ------------------------- program constants --------------------------- *)

MinutesPerDay == 24 * 60

DaysPerMonth == 30

MinMonths == 1

MaxMonths == 10

OneDay == 24 * 60

OneDayTenMinutes == 24 * 60 + 10

ThirtyMinutes == 30

ThirtyFiveMinutes == 35

WarningSweepInterval == 5

ExpirySweepInterval == 60

(* ------------------------------- state --------------------------------- *)

VARIABLES
    now,      \* the clock (new Date()), in minutes
    store,    \* the Subscription collection: discordId -> document or NoRec
    holders,  \* the members that hold the subscription role
    ret,      \* what the last operation did and returned
    sent,     \* the warnings user.send delivered: <<discordId, kind, expiresAt>> -> how many
    procs     \* the calls in flight that are followed await by await: name -> locals

vars == <<now, store, holders, ret, sent, procs>>

NoRec == [absent |-> TRUE]

HasRec(st, u) == st[u] # NoRec

(* --------------------------- timeUtils.js ------------------------------ *)

addMonths(date, months) == date + (months * DaysPerMonth) * MinutesPerDay

\* schema validation run by save(): months is required, min 1, max 10
validMonths(m) == m >= MinMonths /\ m <= MaxMonths

\* virtual isActive
isActive(doc, t) == doc.expiresAt > t

\* the document after extend(additionalMonths), before save() validates it
extendDocNoReset(doc, additionalMonths) ==
    [doc EXCEPT !.expiresAt = @ + (additionalMonths * DaysPerMonth) * MinutesPerDay,
                !.months = @ + additionalMonths]

extendDocNoTime(doc, additionalMonths) ==
    [doc EXCEPT !.months = @ + additionalMonths,
                !.notified1Day = FALSE,
                !.notified30Minutes = FALSE]

extendDocRestart(doc, additionalMonths) ==
    [doc EXCEPT !.startAt = doc.expiresAt,
                !.expiresAt = @ + (additionalMonths * DaysPerMonth) * MinutesPerDay,
                !.months = @ + additionalMonths,
                !.notified1Day = FALSE,
                !.notified30Minutes = FALSE]

extendDoc(doc, additionalMonths) ==
    [doc EXCEPT !.expiresAt = @ + (additionalMonths * DaysPerMonth) * MinutesPerDay,
                !.months = @ + additionalMonths,
                !.notified1Day = FALSE,
                !.notified30Minutes = FALSE]

findExpiredStrict(st, t) == {u \in DOMAIN st : HasRec(st, u) /\ st[u].expiresAt < t}

findExpired(st, t) == {u \in DOMAIN st : HasRec(st, u) /\ st[u].expiresAt <= t}

findActiveOrNow(st, t) == {u \in DOMAIN st : HasRec(st, u) /\ st[u].expiresAt >= t}

findActive(st, t) == {u \in DOMAIN st : HasRec(st, u) /\ st[u].expiresAt > t}

(* ----------------------- subscriptionService.js ------------------------ *)

newDoc31(t, months) ==
    [startAt |-> t, expiresAt |-> t + (months * 31) * MinutesPerDay,
     months |-> months, notified1Day |-> FALSE, notified30Minutes |-> FALSE]

\* new Subscription({discordId, roleId, months, startAt, expiresAt}),
\* the flags taking their schema default
newDoc(t, months) ==
    [startAt |-> t, expiresAt |-> addMonths(t, months),
     months |-> months, notified1Day |-> FALSE, notified30Minutes |-> FALSE]

\* addSubscription(userId, months) at time t on store st: the store after the
\* call and what the call returns (ok = FALSE: the save threw a validation
\* error and the call rethrew it)
addSubscription(st, u, months, t) ==
    IF HasRec(st, u)
    THEN LET doc == extendDoc(st[u], months) IN
         IF validMonths(doc.months)
         THEN [ok |-> TRUE, store |-> [st EXCEPT ![u] = doc],
               isNew |-> FALSE, oldExpiry |-> st[u].expiresAt]
         ELSE [ok |-> FALSE, store |-> st, isNew |-> FALSE, oldExpiry |-> st[u].expiresAt]
    ELSE LET doc == newDoc(t, months) IN
         IF validMonths(doc.months)
         THEN [ok |-> TRUE, store |-> [st EXCEPT ![u] = doc],
               isNew |-> TRUE, oldExpiry |-> -1]
         ELSE [ok |-> FALSE, store |-> st, isNew |-> TRUE, oldExpiry |-> -1]

(* ------------------------------ the clock ------------------------------ *)

\* the eligibility interval of the 1-day query and of the 30-minute query,
\* as instants of the clock, for a document expiring at e
WindowOpen(kind, e) == IF kind = "1day" THEN e - OneDayTenMinutes ELSE e - ThirtyFiveMinutes

WindowClose(kind, e) == IF kind = "1day" THEN e - OneDay ELSE e - ThirtyMinutes

\* the instants around which the queries of the source change their answer
\* for a document expiring at e
Thresholds(e) ==
    UNION {{WindowOpen(k, e) - d, WindowClose(k, e) + d, e + d} :
           k \in {"1day", "30minutes"}, d \in 0..Slack}

Instants ==
    UNION {Thresholds(store[u].expiresAt) : u \in {v \in DOMAIN store : HasRec(store, v)}}

\* time passes between two operations
Advance ==
    /\ \E t \in Instants : t > now /\ t <= MaxNow /\ now' = t
    /\ ret' = [op |-> "advance"]
    /\ UNCHANGED <<store, holders, sent, procs>>

(* ----------------------------- the commands ---------------------------- *)

\* handleAdd: fetch the member, addSubscription, look the role up, grant it,
\* reply, notify the channel.
\* outcome: what the collaborators did ("nomember": the member fetch threw;
\* "norole": the role is not in the cache; "grantfail": roles.add threw;
\* "notifyfail": the channel notification was not delivered)
handleAddRollback(u, months) ==
    \E outcome \in {"nomember", "norole", "grantfail", "notifyfail", "ok"} :
       IF outcome = "nomember"
       THEN /\ ret' = [op |-> "add", called |-> FALSE, user |-> u, months |-> months]
            /\ UNCHANGED <<now, store, holders, sent, procs>>
       ELSE LET r == addSubscription(store, u, months, now) IN
            /\ store' = IF outcome = "ok" THEN r.store ELSE store
            /\ holders' = IF r.ok /\ outcome \in {"ok", "notifyfail"}
                          THEN holders \cup {u} ELSE holders
            /\ ret' = [op |-> "add", called |-> TRUE, user |-> u, months |-> months,
                       pre |-> store[u], ok |-> r.ok, isNew |-> r.isNew,
                       oldExpiry |-> r.oldExpiry, outcome |-> outcome]
            /\ UNCHANGED <<now, sent, procs>>

handleAdd(u, months) ==
    \E outcome \in {"nomember", "norole", "grantfail", "notifyfail", "ok"} :
       IF outcome = "nomember"
       THEN /\ ret' = [op |-> "add", called |-> FALSE, user |-> u, months |-> months]
            /\ UNCHANGED <<now, store, holders, sent, procs>>
       ELSE LET r == addSubscription(store, u, months, now) IN
            /\ store' = r.store
            /\ holders' = IF r.ok /\ outcome \in {"ok", "notifyfail"}
                          THEN holders \cup {u} ELSE holders
            /\ ret' = [op |-> "add", called |-> TRUE, user |-> u, months |-> months,
                       pre |-> store[u], ok |-> r.ok, isNew |-> r.isNew,
                       oldExpiry |-> r.oldExpiry, outcome |-> outcome]
            /\ UNCHANGED <<now, sent, procs>>

\* removeSubscription(userId): findOneAndDelete
removeSubscription(st, u) ==
    [store |-> [st EXCEPT ![u] = NoRec], removed |-> HasRec(st, u)]

\* handleRemove: look the record up, revoke the role, removeSubscription.
\* The result records whether the subscriber held the role before (held) and
\* what became of the revocation ("none": not reached, "notneeded": the
\* member is gone or does not hold the role, "ok", "failed": roles.remove
\* threw)
handleRemoveDeleteFirst(u) ==
    \E memberFound \in BOOLEAN, revokeOk \in BOOLEAN :
       IF ~HasRec(store, u)
       THEN /\ ret' = [op |-> "remove", user |-> u, pre |-> store, removed |-> FALSE,
                       held |-> u \in holders, revoke |-> "none"]
            /\ UNCHANGED <<now, store, holders, sent, procs>>
       ELSE LET r == removeSubscription(store, u)
                needed == memberFound /\ u \in holders
            IN /\ store' = r.store
               /\ holders' = IF needed /\ revokeOk THEN holders \ {u} ELSE holders
               /\ ret' = [op |-> "remove", user |-> u, pre |-> store,
                          removed |-> r.removed, held |-> u \in holders,
                          revoke |-> IF ~needed THEN "notneeded"
                                     ELSE IF revokeOk THEN "ok" ELSE "failed"]
               /\ UNCHANGED <<now, sent, procs>>

handleRemove(u) ==
    \E memberFound \in BOOLEAN, revokeOk \in BOOLEAN :
       IF ~HasRec(store, u)
       THEN /\ ret' = [op |-> "remove", user |-> u, pre |-> store, removed |-> FALSE,
                       held |-> u \in holders, revoke |-> "none"]
            /\ UNCHANGED <<now, store, holders, sent, procs>>
       ELSE IF memberFound /\ u \in holders /\ ~revokeOk
       THEN /\ ret' = [op |-> "remove", user |-> u, pre |-> store, removed |-> FALSE,
                       held |-> u \in holders, revoke |-> "failed"]
            /\ UNCHANGED <<now, store, holders, sent, procs>>
       ELSE LET r == removeSubscription(store, u) IN
            /\ store' = r.store
            /\ holders' = IF memberFound THEN holders \ {u} ELSE holders
            /\ ret' = [op |-> "remove", user |-> u, pre |-> store, removed |-> r.removed,
                       held |-> u \in holders,
                       revoke |-> IF memberFound /\ u \in holders
                                  THEN "ok" ELSE "notneeded"]
            /\ UNCHANGED <<now, sent, procs>>

\* getTimeRemaining(expiresAt) at the instant t
getTimeRemainingStrict(expiresAt, t) ==
    IF expiresAt - t < 0
    THEN [days |-> 0, hours |-> 0, minutes |-> 0, expired |-> TRUE]
    ELSE [days |-> (expiresAt - t) \div MinutesPerDay,
          hours |-> ((expiresAt - t) % MinutesPerDay) \div 60,
          minutes |-> (expiresAt - t) % 60,
          expired |-> FALSE]

getTimeRemaining(expiresAt, t) ==
    IF expiresAt - t <= 0
    THEN [days |-> 0, hours |-> 0, minutes |-> 0, expired |-> TRUE]
    ELSE [days |-> (expiresAt - t) \div MinutesPerDay,
          hours |-> ((expiresAt - t) % MinutesPerDay) \div 60,
          minutes |-> (expiresAt - t) % 60,
          expired |-> FALSE]

\* handleStatus: getSubscriptionStatus, then the status line of the reply
handleStatus(u) ==
    /\ ret' = [op |-> "status", user |-> u, pre |-> store,
               status |-> IF ~HasRec(store, u) THEN "none"
                          ELSE IF getTimeRemaining(store[u].expiresAt, now).expired
                               THEN "EXPIRED" ELSE "ACTIVE"]
    /\ UNCHANGED <<now, store, holders, sent, procs>>

(* ---------------------------- the expiry sweep ------------------------- *)

getExpiredSubscriptionsAll(st, t) == {u \in DOMAIN st : HasRec(st, u)}

getExpiredSubscriptions(st, t) == findExpired(st, t)

\* the loop of processExpiredSubscriptions over the selected documents:
\* fetched are the members guild.members.fetch found, revokeFail those whose
\* roles.remove threw.  The store and the role holders afterwards.
expiredLoopAlwaysDelete(st, hs, selected, fetched, revokeFail) ==
    [store |-> [u \in DOMAIN st |-> IF u \in selected THEN NoRec ELSE st[u]],
     holders |-> hs \ ((selected \cap fetched) \ revokeFail),
     processedUsers |-> selected]

expiredLoopNoDelete(st, hs, selected, fetched, revokeFail) ==
    [store |-> st,
     holders |-> hs \ ((selected \cap fetched) \ revokeFail),
     processedUsers |-> selected \ revokeFail]

expiredLoop(st, hs, selected, fetched, revokeFail) ==
    [store |-> [u \in DOMAIN st |-> IF u \in selected \ revokeFail THEN NoRec ELSE st[u]],
     holders |-> hs \ ((selected \cap fetched) \ revokeFail),
     processedUsers |-> selected \ revokeFail]

\* one run of processExpiredSubscriptions in which the members of fetched are
\* found in the guild and revoking the role of the members of revokeFail throws
processExpiredSubscriptions(fetched, revokeFail) ==
    LET selected == getExpiredSubscriptions(store, now)
        r == expiredLoop(store, holders, selected, fetched, revokeFail)
    IN /\ fetched \subseteq selected
       /\ revokeFail \subseteq (fetched \cap holders)
       /\ store' = r.store
       /\ holders' = r.holders
       /\ ret' = [op |-> "expiry", pre |-> store, selected |-> selected,
                  revokeFail |-> revokeFail, processedUsers |-> r.processedUsers]
       /\ UNCHANGED <<now, sent, procs>>

\* the hourly cron callback with the guild in the cache
ExpirySweep ==
    \E fetched \in SUBSET getExpiredSubscriptions(store, now) :
        \E revokeFail \in SUBSET (fetched \cap holders) :
            processExpiredSubscriptions(fetched, revokeFail)

\* the hourly cron callback when the guild is not in the cache: it returns
\* without calling processExpiredSubscriptions
ExpirySweepNoGuild ==
    /\ ret' = [op |-> "noguild"]
    /\ UNCHANGED <<now, store, holders, sent, procs>>

(* ---------------------------- the warning sweep ------------------------ *)

getSubscriptionsExpiringIn1DayOpen(st, t) ==
    {u \in DOMAIN st : /\ HasRec(st, u)
                   /\ st[u].expiresAt >= t + OneDay
                   /\ st[u].expiresAt < t + OneDayTenMinutes
                   /\ st[u].notified1Day # TRUE}

getSubscriptionsExpiringIn1DayAfter(st, t) ==
    {u \in DOMAIN st : /\ HasRec(st, u)
                   /\ st[u].expiresAt > t + OneDay
                   /\ st[u].expiresAt <= t + OneDayTenMinutes
                   /\ st[u].notified1Day # TRUE}

getSubscriptionsExpiringIn1DayAnyFlag(st, t) ==
    {u \in DOMAIN st : /\ HasRec(st, u)
                   /\ st[u].expiresAt >= t + OneDay
                   /\ st[u].expiresAt <= t + OneDayTenMinutes}

getSubscriptionsExpiringIn1Day(st, t) ==
    {u \in DOMAIN st : /\ HasRec(st, u)
                   /\ st[u].expiresAt >= t + OneDay
                   /\ st[u].expiresAt <= t + OneDayTenMinutes
                   /\ st[u].notified1Day # TRUE}

getSubscriptionsExpiringIn30MinutesAnyFlag(st, t) ==
    {u \in DOMAIN st : /\ HasRec(st, u)
                   /\ st[u].expiresAt >= t + ThirtyMinutes
                   /\ st[u].expiresAt <= t + ThirtyFiveMinutes}

getSubscriptionsExpiringIn30Minutes(st, t) ==
    {u \in DOMAIN st : /\ HasRec(st, u)
                   /\ st[u].expiresAt >= t + ThirtyMinutes
                   /\ st[u].expiresAt <= t + ThirtyFiveMinutes
                   /\ st[u].notified30Minutes # TRUE}

\* findByIdAndUpdate(_id, {notified1Day: true}) or {notified30Minutes: true}
\* for every member of marked
markNotifiedBoth(st, marked, kind) ==
    [u \in DOMAIN st |->
        IF u \in marked /\ HasRec(st, u)
        THEN [st[u] EXCEPT !.notified1Day = TRUE, !.notified30Minutes = TRUE]
        ELSE st[u]]

\* findByIdAndUpdate creating the document it does not find
markNotifiedUpsert(st, marked, kind) ==
    [u \in DOMAIN st |->
        IF u \in marked
        THEN IF HasRec(st, u)
             THEN IF kind = "1day" THEN [st[u] EXCEPT !.notified1Day = TRUE]
                                   ELSE [st[u] EXCEPT !.notified30Minutes = TRUE]
             ELSE [[discordId |-> "u1"] @@ newDoc(0, MinMonths)
                      EXCEPT !.notified1Day = (kind = "1day"),
                             !.notified30Minutes = (kind = "30minutes")]
        ELSE st[u]]

markNotified(st, marked, kind) ==
    [u \in DOMAIN st |->
        IF u \in marked /\ HasRec(st, u)
        THEN IF kind = "1day" THEN [st[u] EXCEPT !.notified1Day = TRUE]
                              ELSE [st[u] EXCEPT !.notified30Minutes = TRUE]
        ELSE st[u]]

\* how many warnings of the kind user.send delivered to u about the expiry e
SentCount(log, u, kind, e) ==
    IF <<u, kind, e>> \in DOMAIN log THEN log[<<u, kind, e>>] ELSE 0

\* user.send resolved for every key of keys
logSends(log, keys) ==
    [k \in DOMAIN log \cup keys |->
        (IF k \in DOMAIN log THEN log[k] ELSE 0) + (IF k \in keys THEN 1 ELSE 0)]

\* the users a sweep can still deliver a warning to at the bound MaxSends
Deliverable(st, log, users, kind) ==
    {u \in users : SentCount(log, u, kind, st[u].expiresAt) < MaxSends}

\* processExpirationWarnings: both queries, then sendExpirationWarningToUser
\* for every selected document; sent are the documents whose message went
\* out, marked those whose flag update succeeded after it
processExpirationWarningsMarkAll(sent1, marked1, sent30, marked30) ==
    LET sel1 == getSubscriptionsExpiringIn1Day(store, now)
        sel30 == getSubscriptionsExpiringIn30Minutes(store, now)
    IN /\ marked1 \subseteq sent1 /\ sent1 \subseteq sel1
       /\ marked30 \subseteq sent30 /\ sent30 \subseteq sel30
       /\ store' = markNotified(markNotified(store, sent1, "1day"), sent30, "30minutes")
       /\ sent' = logSends(sent, {<<u, "1day", store[u].expiresAt>> : u \in sent1}
                                 \cup {<<u, "30minutes", store[u].expiresAt>> : u \in sent30})
       /\ ret' = [op |-> "warn", pre |-> store, sel1 |-> sel1, sel30 |-> sel30,
                  sent1 |-> sent1, sent30 |-> sent30,
                  marked1 |-> marked1, marked30 |-> marked30,
                  oneDayWarnings |-> Cardinality(sel1),
                  thirtyMinuteWarnings |-> Cardinality(sel30)]
       /\ UNCHANGED <<now, holders, procs>>

processExpirationWarnings(sent1, marked1, sent30, marked30) ==
    LET sel1 == getSubscriptionsExpiringIn1Day(store, now)
        sel30 == getSubscriptionsExpiringIn30Minutes(store, now)
    IN /\ marked1 \subseteq sent1 /\ sent1 \subseteq sel1
       /\ marked30 \subseteq sent30 /\ sent30 \subseteq sel30
       /\ store' = markNotified(markNotified(store, marked1, "1day"), marked30, "30minutes")
       /\ sent' = logSends(sent, {<<u, "1day", store[u].expiresAt>> : u \in sent1}
                                 \cup {<<u, "30minutes", store[u].expiresAt>> : u \in sent30})
       /\ ret' = [op |-> "warn", pre |-> store, sel1 |-> sel1, sel30 |-> sel30,
                  sent1 |-> sent1, sent30 |-> sent30,
                  marked1 |-> marked1, marked30 |-> marked30,
                  oneDayWarnings |-> Cardinality(sel1),
                  thirtyMinuteWarnings |-> Cardinality(sel30)]
       /\ UNCHANGED <<now, holders, procs>>

\* the 5-minute cron callback
WarningSweep ==
    \E sent1 \in SUBSET Deliverable(store, sent, getSubscriptionsExpiringIn1Day(store, now), "1day"),
       sent30 \in SUBSET Deliverable(store, sent, getSubscriptionsExpiringIn30Minutes(store, now), "30minutes") :
        \E marked1 \in SUBSET sent1, marked30 \in SUBSET sent30 :
            processExpirationWarnings(sent1, marked1, sent30, marked30)

(* --------------------------- the specification ------------------------- *)

Init ==
    /\ now = 0
    /\ store = [u \in Users |-> NoRec]
    /\ holders = {}
    /\ ret = [op |-> "init"]
    /\ sent = << >>
    /\ procs = << >>

Next ==
    \/ Advance
    \/ \E u \in DOMAIN store, m \in MonthsIn : handleAdd(u, m)
    \/ \E u \in DOMAIN store : handleRemove(u)
    \/ \E u \in DOMAIN store : handleStatus(u)
    \/ ExpirySweep
    \/ ExpirySweepNoGuild
    \/ WarningSweep

Spec == Init /\ [][Next]_vars

\* the hourly cron keeps invoking processExpiredSubscriptions
LiveSpec == Spec /\ WF_vars(ExpirySweep)

\* no record, or a record created at minute 0 that the warning sweeps have
\* or have not flagged, half an hour before it expires
AnyMonthsInit ==
    /\ \/ now = 0 /\ store = [u \in Users |-> NoRec]
       \/ \E k \in MonthsIn, n1 \in BOOLEAN, n30 \in BOOLEAN :
             /\ now = WindowClose("30minutes", addMonths(0, k))
             /\ store = [u \in Users |->
                            [newDoc(0, k) EXCEPT !.notified1Day = n1,
                                                 !.notified30Minutes = n30]]
    /\ holders \in {{}, Users}
    /\ ret = [op |-> "init"]
    /\ sent = << >>
    /\ procs = << >>

\* addSubscription reached with any months value, in range or not (the range
\* of the months option is checked by the chat platform, not by handleAdd)
AnyMonthsNext ==
    \E u \in DOMAIN store, m \in MonthsIn \cup BadMonths : handleAdd(u, m)

AnyMonthsSpec == AnyMonthsInit /\ [][AnyMonthsNext]_vars

\* a record created at minute 0 that has expired and is still stored (no
\* sweep has deleted it: the guild was not in the cache, or revoking the role
\* of its holder kept failing), the clock up to two months past its expiry
StaleInit ==
    \E k \in RaceMonths, late \in RaceMonths \cup {0}, d \in (0 - Slack)..Slack :
        /\ now = addMonths(addMonths(0, k), late) + d
        /\ now >= addMonths(0, k)
        /\ store = [u \in Users |-> newDoc(0, k)]
        /\ holders = Users
        /\ ret = [op |-> "init"]
        /\ sent = << >>
        /\ procs = << >>

StaleNext ==
    \/ \E u \in DOMAIN store, m \in RaceMonths : handleAdd(u, m)
    \/ ExpirySweep

StaleSpec == StaleInit /\ [][StaleNext]_vars

(* ------------------------- the warning cron schedule ------------------- *)

\* the last tick of the '*/5 * * * *' schedule at or before the instant t
lastTick(t) == (t \div WarningSweepInterval) * WarningSweepInterval

\* a record created at one of the first minutes, and the clock at the last
\* tick that is a whole interval before its 1-day window opens
TickInit ==
    \E startAt \in 0..MaxStart, m \in MonthsIn :
        /\ store = [u \in Users |-> newDoc(startAt, m)]
        /\ now = lastTick(WindowOpen("1day", addMonths(startAt, m))) - WarningSweepInterval
        /\ now <= MaxNow
        /\ holders = Users
        /\ ret = [op |-> "init"]
        /\ sent = << >>
        /\ procs = << >>

\* the next tick of the warning cron fires and the callback reads the clock
\* at most MaxJitter later
CronTick ==
    /\ ret.op # "tick"
    /\ \E j \in 0..MaxJitter :
          /\ lastTick(now) + WarningSweepInterval + j <= MaxNow
          /\ now' = lastTick(now) + WarningSweepInterval + j
    /\ ret' = [op |-> "tick"]
    /\ UNCHANGED <<store, holders, sent, procs>>

\* the callback of the tick: processExpirationWarnings in which every send
\* and every flag update succeeds
TickSweep ==
    /\ ret.op = "tick"
    /\ LET sel1 == getSubscriptionsExpiringIn1Day(store, now)
           sel30 == getSubscriptionsExpiringIn30Minutes(store, now)
       IN processExpirationWarnings(sel1, sel1, sel30, sel30)

TickNext == CronTick \/ TickSweep

TickSpec == TickInit /\ [][TickNext]_vars

(* ------------------------------ add / extend --------------------------- *)

\* the last operation was a call of addSubscription
AddCalled == ret.op = "add" /\ ret.called

\* C1: addSubscription(userId, months), months in 1..10, for a subscriber
\* with no record creates the record with startAt = now, expiresAt = startAt
\* + 30*months days, months = months and both flags false, and reports
\* isNew = true.
C1_CreateRecord ==
    (AddCalled /\ ret.pre = NoRec /\ ret.months \in 1..10) =>
        /\ ret.ok
        /\ ret.isNew = TRUE
        /\ store[ret.user] = [startAt |-> now,
                              expiresAt |-> now + ret.months * 30 * 24 * 60,
                              months |-> ret.months,
                              notified1Day |-> FALSE,
                              notified30Minutes |-> FALSE]

\* a record is created some time after the start of the run
C1_Witness ==
    AddCalled /\ ret.pre = NoRec /\ ret.ok /\ ret.isNew /\ now > 0 /\ ret.months = 6

\* C2 (as claimed): addSubscription(userId, m) on a record with expiresAt = T
\* and months = k yields expiresAt = T + 30*m days and months = k + m, and
\* reports isNew = false and oldExpiry = T.
C2_ExtendYields ==
    (AddCalled /\ ret.pre # NoRec) =>
        /\ ret.ok
        /\ store[ret.user].expiresAt = ret.pre.expiresAt + ret.months * 30 * 24 * 60
        /\ store[ret.user].months = ret.pre.months + ret.months
        /\ ret.isNew = FALSE
        /\ ret.oldExpiry = ret.pre.expiresAt

\* C3: after any successful extension of an existing record both
\* notification flags of the record are false, whatever they were before.
C3_FlagsReset ==
    (AddCalled /\ ret.pre # NoRec /\ ret.ok) =>
        /\ store[ret.user].notified1Day = FALSE
        /\ store[ret.user].notified30Minutes = FALSE

\* a record that had received both warnings is extended
C3_Witness ==
    /\ AddCalled /\ ret.pre # NoRec /\ ret.ok
    /\ ret.pre.notified1Day /\ ret.pre.notified30Minutes

\* C4 (as claimed): an extension with months in 1..10 succeeds whatever the
\* cumulative months total of the record is.
C4_ExtendSucceeds ==
    (AddCalled /\ ret.pre # NoRec /\ ret.months \in 1..10) =>
        /\ ret.ok
        /\ HasRec(store, ret.user)
        /\ store[ret.user].months = ret.pre.months + ret.months


(* ---------------------------- the expiry sweep ------------------------- *)

\* the document of u is in the store and its expiresAt has passed
Expired(u) == HasRec(store, u) /\ store[u].expiresAt <= now

\* the last operation was an expiry sweep in which revoking the role of u threw
RevokeFailed(u) == ret.op = "expiry" /\ u \in ret.revokeFail

\* C5 (as claimed): every record the expiry sweep selected is deleted from
\* the store, whether or not revoking its role succeeded.
C5_SelectedAlwaysDeleted ==
    ret.op = "expiry" => \A u \in ret.selected : ~HasRec(store, u)

\* C5 (amended): a selected record is deleted unless revoking its role threw;
\* then the record stays as it was, the member keeps the role, and the record
\* is still one the next sweep selects.
C5_DeletedUnlessRevokeFails ==
    ret.op = "expiry" =>
        \A u \in ret.selected :
            IF u \in ret.revokeFail
            THEN /\ store[u] = ret.pre[u]
                 /\ u \in holders
                 /\ store[u].expiresAt <= now
            ELSE ~HasRec(store, u)

\* a sweep in which the role revocation of a selected record threw
C5_Witness ==
    ret.op = "expiry" /\ ret.revokeFail # {} /\ ret.revokeFail \subseteq ret.selected

\* C6: the expiry sweep run at time now selects exactly the records with
\* expiresAt <= now.
C6_SweepSelectsExpired ==
    ret.op = "expiry" =>
        ret.selected = {u \in DOMAIN ret.pre :
                           ret.pre[u] # NoRec /\ ret.pre[u].expiresAt <= now}

\* a sweep at the very instant a record expires selects it
C6_Witness ==
    /\ ret.op = "expiry"
    /\ \E u \in ret.selected : ret.pre[u].expiresAt = now

\* C7 (as claimed): every record whose expiresAt has passed is eventually
\* deleted (or is no longer expired), given that the sweep keeps being invoked.
C7_ExpiredEventuallyDeleted ==
    \A u \in Users : Expired(u) ~> ~Expired(u)

\* C7 (amended): given that the sweep keeps being invoked, every record whose
\* expiresAt has passed is eventually deleted (or no longer expired), or the
\* revocation of its role fails in a sweep, which keeps it for the next one.
C7_DeletedOrRevokeFails ==
    \A u \in Users : Expired(u) ~> (~Expired(u) \/ RevokeFailed(u))

\* the sweep deleted a record whose expiresAt had passed
C7_Witness ==
    /\ ret.op = "expiry"
    /\ \E u \in ret.selected : ~HasRec(store, u) /\ ret.pre[u].expiresAt < now

(* ---------------------------- the warning sweep ------------------------ *)

\* C8 (as claimed): the 1-day query at time now selects a record exactly when
\* notified1Day is false and now is in [expiresAt - 24h, expiresAt - 24h + 10min).
C8_WindowAfterMark ==
    ret.op = "warn" =>
        ret.sel1 = {u \in DOMAIN ret.pre :
                       /\ ret.pre[u] # NoRec
                       /\ ret.pre[u].notified1Day = FALSE
                       /\ now >= ret.pre[u].expiresAt - 24 * 60
                       /\ now < ret.pre[u].expiresAt - 24 * 60 + 10}

\* C8 (amended): the 1-day query at time now selects a record exactly when
\* notified1Day is false and now is in the closed interval
\* [expiresAt - 24h - 10min, expiresAt - 24h].
C8_WindowBeforeMark ==
    ret.op = "warn" =>
        ret.sel1 = {u \in DOMAIN ret.pre :
                       /\ ret.pre[u] # NoRec
                       /\ ret.pre[u].notified1Day = FALSE
                       /\ now >= ret.pre[u].expiresAt - 24 * 60 - 10
                       /\ now <= ret.pre[u].expiresAt - 24 * 60}

\* a record is selected 24 hours and 10 minutes before it expires
C8_Witness ==
    /\ ret.op = "warn"
    /\ \E u \in ret.sel1 : now = ret.pre[u].expiresAt - 24 * 60 - 10

\* C9: with notified1Day false, a record with expiresAt = now + 24h is
\* selected for the 1-day warning, and a record with expiresAt = now + 24h +
\* 11min or with expiresAt = now + 24h - 1min is not.
C9_WindowBoundaries ==
    ret.op = "warn" =>
        \A u \in DOMAIN ret.pre :
            (ret.pre[u] # NoRec /\ ret.pre[u].notified1Day = FALSE) =>
                /\ ret.pre[u].expiresAt = now + 24 * 60 => u \in ret.sel1
                /\ ret.pre[u].expiresAt = now + 24 * 60 + 11 => u \notin ret.sel1
                /\ ret.pre[u].expiresAt = now + 24 * 60 - 1 => u \notin ret.sel1

\* a record that expires in exactly 24 hours is selected
C9_Witness ==
    /\ ret.op = "warn"
    /\ \E u \in ret.sel1 : ret.pre[u].expiresAt = now + 24 * 60

\* the instants, up to two hours before the 24-hour mark, at which the query
\* of the given kind selects a document that has not been warned
EligibleInstants(kind, doc) ==
    LET fresh == [x \in {"probe"} |->
                     [doc EXCEPT !.notified1Day = FALSE, !.notified30Minutes = FALSE]]
    IN {t \in (doc.expiresAt - 26 * 60)..doc.expiresAt :
           IF kind = "1day"
           THEN getSubscriptionsExpiringIn1Day(fresh, t) # {}
           ELSE getSubscriptionsExpiringIn30Minutes(fresh, t) # {}}

Minimum(S) == CHOOSE x \in S : \A y \in S : x <= y

Maximum(S) == CHOOSE x \in S : \A y \in S : x >= y

\* the minutes between the first and the last instant of the eligibility window
WindowWidth(kind, doc) ==
    Maximum(EligibleInstants(kind, doc)) - Minimum(EligibleInstants(kind, doc))

\* C10 (as claimed): for each of the two warnings the eligibility window of
\* every record is strictly wider than the interval between warning sweeps.
C10_WindowsExceedInterval ==
    \A u \in DOMAIN store :
        HasRec(store, u) =>
            /\ WindowWidth("1day", store[u]) > WarningSweepInterval
            /\ WindowWidth("30minutes", store[u]) > WarningSweepInterval

(* ------------------------- calls that interleave ----------------------- *)

\* In the specifications below a call is followed await by await: procs maps
\* the name of each call in flight to its locals, and the store is keyed by
\* the _id of the documents (1, 2, ...), each document carrying its
\* discordId, so that what the unique index of discordId rules out can be
\* written down.  The key 0 stands for null.

\* the keys of the documents of the subscriber u
docsOf(st, u) == {k \in DOMAIN st : HasRec(st, k) /\ st[k].discordId = u}

\* Subscription.findOne({ discordId: u }): the _id of the document, 0 for null
findOne(st, u) == IF docsOf(st, u) = {} THEN 0 ELSE Minimum(docsOf(st, u))

\* the fields of a loaded document that differ from what was loaded: the
\* paths save() writes
modifiedPaths(loaded, changed) == {f \in DOMAIN changed : changed[f] # loaded[f]}

\* save() of a document loaded earlier and changed in memory: updateOne by
\* _id that sets the modified paths
saveLoaded(st, k, loaded, changed) ==
    [st EXCEPT ![k] = [f \in DOMAIN st[k] |->
                          IF f \in modifiedPaths(loaded, changed)
                          THEN changed[f] ELSE st[k][f]]]

\* save() of a new document: the insert, which the unique index of discordId
\* rejects (duplicate key) when the subscriber has a document
insertDocNoIndex(st, doc) ==
    [ok |-> TRUE, store |-> st @@ ((Cardinality(DOMAIN st) + 1) :> doc)]

insertDoc(st, doc) ==
    IF docsOf(st, doc.discordId) # {}
    THEN [ok |-> FALSE, store |-> st]
    ELSE [ok |-> TRUE, store |-> st @@ ((Cardinality(DOMAIN st) + 1) :> doc)]

\* the locals of a call of addSubscription(u, months) that has not started
addCall(u, months) ==
    [kind |-> "add", pc |-> "findOne", user |-> u, months |-> months,
     key |-> 0, doc |-> NoRec, result |-> "none"]

\* addSubscription, first await: the lookup
addFindOne(p) ==
    /\ procs[p].kind = "add" /\ procs[p].pc = "findOne"
    /\ LET k == findOne(store, procs[p].user) IN
          procs' = [procs EXCEPT ![p] = [@ EXCEPT !.pc = "save", !.key = k,
                                                  !.doc = IF k = 0 THEN NoRec ELSE store[k]]]
    /\ UNCHANGED <<now, store, holders, ret, sent>>

\* addSubscription, second await: extend(months) of the loaded document, or
\* the save of a new one.  The result is "extended" or "created", or the
\* error thrown: "invalid" (schema validation), "notfound" (the loaded
\* document is gone), "duplicate" (unique index)
addSave(p) ==
    /\ procs[p].kind = "add" /\ procs[p].pc = "save"
    /\ LET c == procs[p]
           ext == extendDoc(c.doc, c.months)
           ins == insertDoc(store, [discordId |-> c.user] @@ newDoc(now, c.months))
           result == IF c.key # 0
                     THEN IF ~validMonths(ext.months) THEN "invalid"
                          ELSE IF ~HasRec(store, c.key) THEN "notfound"
                          ELSE "extended"
                     ELSE IF ~validMonths(c.months) THEN "invalid"
                          ELSE IF ~ins.ok THEN "duplicate"
                          ELSE "created"
       IN /\ store' = IF result = "extended" THEN saveLoaded(store, c.key, c.doc, ext)
                      ELSE IF result = "created" THEN ins.store
                      ELSE store
          /\ procs' = [procs EXCEPT ![p] = [@ EXCEPT !.pc = "done", !.result = result]]
    /\ UNCHANGED <<now, holders, ret, sent>>

\* two add commands for the same subscriber in flight at once, the subscriber
\* having no record or a record created at minute 0
AddRaceInit ==
    \E u \in Users, k \in RaceMonths \cup MonthsIn, m1 \in RaceMonths, m2 \in RaceMonths :
        /\ now = 0
        /\ store \in {<< >>, <<[discordId |-> u] @@ newDoc(0, k)>>}
        /\ holders = {}
        /\ ret = [op |-> "init"]
        /\ sent = << >>
        /\ procs = [p \in {"a1", "a2"} |-> addCall(u, IF p = "a1" THEN m1 ELSE m2)]

AddRaceNext ==
    \/ Advance
    \/ \E p \in DOMAIN procs : addFindOne(p)
    \/ \E p \in DOMAIN procs : addSave(p)

AddRaceSpec == AddRaceInit /\ [][AddRaceNext]_vars

\* the locals of an invocation of processExpirationWarnings that has not
\* started: the documents its queries returned (snap, read at the instant
\* at), the <<_id, kind>> pairs its loops have still to handle (todo), the
\* pair whose message is out and whose flag update is due (cur), whether a
\* flag update of it failed, whether it started while another invocation
\* was running, the pairs whose iteration ended in the catch block (caught)
\* and the pairs the loops took up after that (resumed), and the pairs
\* whose flag update found no document (missed), and the pairs whose
\* message went out when the subscriber had no record in the window (stale)
warnCall ==
    [kind |-> "warn", pc |-> "query", snap |-> << >>, at |-> 0, todo |-> {},
     cur |-> <<0, "none">>, failed |-> FALSE, overlapped |-> FALSE,
     caught |-> {}, resumed |-> {}, missed |-> {}, stale |-> {}]

\* the pc of an invocation whose loops have the pairs of todo left
afterPair(todo) == IF todo = {} THEN "done" ELSE "send"

\* the pc of an invocation after the catch block inside the loop has
\* swallowed the failure of one record: the loop goes on
afterCatchAbort(todo) == "done"

afterCatch(todo) == afterPair(todo)

\* the subscriber u has a record whose expiresAt lies in the window of the
\* kind at the instant t
inWindowNow(st, u, kind, t) ==
    \E k \in docsOf(st, u) :
        WindowOpen(kind, st[k].expiresAt) <= t /\ t <= WindowClose(kind, st[k].expiresAt)

\* the pairs the 1-day loop, and after it the 30-minute loop, can take next
nextPairs(todo) ==
    IF \E x \in todo : x[2] = "1day" THEN {x \in todo : x[2] = "1day"} ELSE todo

\* processExpirationWarnings, the two queries
warnQuery(p) ==
    /\ procs[p].kind = "warn" /\ procs[p].pc = "query"
    /\ LET todo == {<<k, "1day">> : k \in getSubscriptionsExpiringIn1Day(store, now)}
                   \cup {<<k, "30minutes">> : k \in getSubscriptionsExpiringIn30Minutes(store, now)}
       IN procs' = [procs EXCEPT ![p] =
                       [@ EXCEPT !.pc = afterPair(todo), !.snap = store, !.at = now,
                                 !.todo = todo,
                                 !.overlapped =
                                     \E q \in DOMAIN procs \ {p} :
                                         /\ procs[q].kind = "warn"
                                         /\ procs[q].pc \in {"send", "mark"}]]
    /\ UNCHANGED <<now, store, holders, ret, sent>>

\* sendExpirationWarningToUser up to user.send: the message, built from the
\* document the query returned, goes out (ok) or the fetch or the send throws
\* and the catch block swallows it
warnSend(p) ==
    /\ procs[p].kind = "warn" /\ procs[p].pc = "send"
    /\ \E x \in nextPairs(procs[p].todo), ok \in BOOLEAN :
          LET doc == procs[p].snap[x[1]] IN
          IF ok
          THEN /\ SentCount(sent, doc.discordId, x[2], doc.expiresAt) < MaxSends
               /\ sent' = logSends(sent, {<<doc.discordId, x[2], doc.expiresAt>>})
               /\ procs' = [procs EXCEPT ![p] =
                               [@ EXCEPT !.pc = "mark", !.cur = x,
                                         !.resumed = IF procs[p].caught = {}
                                                     THEN @ ELSE @ \cup {x},
                                         !.stale = IF inWindowNow(store, doc.discordId, x[2], now)
                                                   THEN @ ELSE @ \cup {x}]]
          ELSE /\ sent' = sent
               /\ procs' = [procs EXCEPT ![p] =
                               [@ EXCEPT !.pc = afterCatch(procs[p].todo \ {x}),
                                         !.todo = @ \ {x},
                                         !.caught = @ \cup {x},
                                         !.resumed = IF procs[p].caught = {}
                                                     THEN @ ELSE @ \cup {x}]]
    /\ UNCHANGED <<now, store, holders, ret>>

\* sendExpirationWarningToUser after user.send: findByIdAndUpdate of the flag
\* by the _id of the document the query returned (ok), or its failure
warnMark(p) ==
    /\ procs[p].kind = "warn" /\ procs[p].pc = "mark"
    /\ \E ok \in BOOLEAN :
          LET x == procs[p].cur IN
          /\ store' = IF ok THEN markNotified(store, {x[1]}, x[2]) ELSE store
          /\ procs' = [procs EXCEPT ![p] =
                          [@ EXCEPT !.pc = IF ok THEN afterPair(procs[p].todo \ {x})
                                                 ELSE afterCatch(procs[p].todo \ {x}),
                                    !.todo = @ \ {x},
                                    !.cur = <<0, "none">>,
                                    !.failed = @ \/ ~ok,
                                    !.caught = IF ok THEN @ ELSE @ \cup {x},
                                    !.missed = IF ok /\ ~HasRec(store, x[1])
                                                THEN @ \cup {x} ELSE @]]
    /\ UNCHANGED <<now, holders, ret, sent>>

\* a record created at minute 0, the clock just before its 1-day window; two
\* invocations of the warning sweep and one add command are about to run
WarnRaceInit ==
    \E u \in Users, k \in MonthsIn, m \in RaceMonths :
        /\ now = WindowOpen("1day", addMonths(0, k)) - Slack
        /\ now <= MaxNow
        /\ store = <<[discordId |-> u] @@ newDoc(0, k)>>
        /\ holders = {u}
        /\ ret = [op |-> "init"]
        /\ sent = << >>
        /\ procs = [p \in {"w1", "w2", "a1"} |->
                        IF p = "a1" THEN addCall(u, m) ELSE warnCall]

WarnRaceNext ==
    \/ Advance
    \/ \E p \in DOMAIN procs : warnQuery(p)
    \/ \E p \in DOMAIN procs : warnSend(p)
    \/ \E p \in DOMAIN procs : warnMark(p)
    \/ \E p \in DOMAIN procs : addFindOne(p)
    \/ \E p \in DOMAIN procs : addSave(p)

WarnRaceSpec == WarnRaceInit /\ [][WarnRaceNext]_vars

\* Subscription.findOneAndDelete({ discordId: u }) and what
\* removeSubscription returns
findOneAndDeleteAll(st, u) ==
    [store |-> [k \in DOMAIN st |-> NoRec], removed |-> findOne(st, u) # 0]

findOneAndDelete(st, u) ==
    IF findOne(st, u) = 0
    THEN [store |-> st, removed |-> FALSE]
    ELSE [store |-> [st EXCEPT ![findOne(st, u)] = NoRec], removed |-> TRUE]

\* the locals of a remove command for u that has not started
removeCall(u) ==
    [kind |-> "remove", pc |-> "lookup", user |-> u, result |-> "none"]

\* handleRemove, getSubscriptionStatus: no record, and the command replies
\* that there is no subscription
remLookup(p) ==
    /\ procs[p].kind = "remove" /\ procs[p].pc = "lookup"
    /\ procs' = [procs EXCEPT ![p] =
                    IF findOne(store, procs[p].user) = 0
                    THEN [@ EXCEPT !.pc = "done", !.result = "absent"]
                    ELSE [@ EXCEPT !.pc = "revoke"]]
    /\ UNCHANGED <<now, store, holders, ret, sent>>

\* handleRemove, the member fetch and roles.remove, which may throw
remRevoke(p) ==
    /\ procs[p].kind = "remove" /\ procs[p].pc = "revoke"
    /\ \E memberFound \in BOOLEAN, revokeOk \in BOOLEAN :
          IF memberFound /\ procs[p].user \in holders
          THEN IF revokeOk
               THEN /\ holders' = holders \ {procs[p].user}
                    /\ procs' = [procs EXCEPT ![p] = [@ EXCEPT !.pc = "delete"]]
               ELSE /\ holders' = holders
                    /\ procs' = [procs EXCEPT ![p] = [@ EXCEPT !.pc = "done", !.result = "error"]]
          ELSE /\ holders' = holders
               /\ procs' = [procs EXCEPT ![p] = [@ EXCEPT !.pc = "delete"]]
    /\ UNCHANGED <<now, store, ret, sent>>

\* handleRemove, removeSubscription(targetUser.id); the result is what
\* removeSubscription returned
remDelete(p) ==
    /\ procs[p].kind = "remove" /\ procs[p].pc = "delete"
    /\ LET r == findOneAndDelete(store, procs[p].user) IN
          /\ store' = r.store
          /\ procs' = [procs EXCEPT ![p] =
                          [@ EXCEPT !.pc = "done",
                                    !.result = IF r.removed THEN "true" ELSE "false"]]
    /\ UNCHANGED <<now, holders, ret, sent>>

\* the three countDocuments of getSubscriptionStats
StatsQueries == {"total", "active", "expired"}

\* the locals of a call of getSubscriptionStats that has not started: the
\* two new Date() values, the queries still to be answered, the counts, the
\* store the first answered query saw and whether every query saw that store
statsCall ==
    [kind |-> "stats", pc |-> "start", dActive |-> 0, dExpired |-> 0,
     pending |-> StatsQueries, total |-> 0, active |-> 0, expired |-> 0,
     seen |-> << >>, stable |-> TRUE]

\* getSubscriptionStats builds the three queries: the two new Date() are
\* read one after the other, and the clock may tick between them
statsStart(p) ==
    /\ procs[p].kind = "stats" /\ procs[p].pc = "start"
    /\ \E t \in {now, now + 1} :
          /\ t <= MaxNow
          /\ now' = t
          /\ procs' = [procs EXCEPT ![p] =
                          [@ EXCEPT !.pc = "count", !.dActive = now, !.dExpired = t]]
    /\ UNCHANGED <<store, holders, ret, sent>>

\* the store answers one of the three queries of Promise.all
statsCount(p) ==
    /\ procs[p].kind = "stats" /\ procs[p].pc = "count"
    /\ \E q \in procs[p].pending :
          LET c == procs[p]
              first == c.pending = StatsQueries
          IN procs' = [procs EXCEPT ![p] =
                 [@ EXCEPT !.pc = IF c.pending = {q} THEN "done" ELSE "count",
                           !.pending = @ \ {q},
                           !.total = IF q = "total"
                                     THEN Cardinality({k \in DOMAIN store : HasRec(store, k)})
                                     ELSE @,
                           !.active = IF q = "active"
                                      THEN Cardinality(findActive(store, c.dActive))
                                      ELSE @,
                           !.expired = IF q = "expired"
                                       THEN Cardinality(findExpired(store, c.dExpired))
                                       ELSE @,
                           !.seen = IF first THEN store ELSE @,
                           !.stable = IF first THEN TRUE ELSE (@ /\ store = c.seen)]]
    /\ UNCHANGED <<now, store, holders, ret, sent>>

\* two subscribers with records created at minute 0, the clock just before
\* the first of them expires; two remove commands and one call of
\* getSubscriptionStats are about to run
CommandRaceInit ==
    \E u1 \in RaceUsers, u2 \in RaceUsers :
        /\ now = addMonths(0, Minimum(MonthsIn)) - Slack
        /\ store = <<[discordId |-> "u1"] @@ newDoc(0, Minimum(MonthsIn)),
                     [discordId |-> "u2"] @@ newDoc(0, Maximum(MonthsIn))>>
        /\ holders \in {RaceUsers, {}}
        /\ ret = [op |-> "init"]
        /\ sent = << >>
        /\ procs = [p \in {"r1", "r2", "s1"} |->
                        IF p = "r1" THEN removeCall(u1)
                        ELSE IF p = "r2" THEN removeCall(u2)
                        ELSE statsCall]

CommandRaceNext ==
    \/ Advance
    \/ \E p \in DOMAIN procs : remLookup(p)
    \/ \E p \in DOMAIN procs : remRevoke(p)
    \/ \E p \in DOMAIN procs : remDelete(p)
    \/ \E p \in DOMAIN procs : statsStart(p)
    \/ \E p \in DOMAIN procs : statsCount(p)

CommandRaceSpec == CommandRaceInit /\ [][CommandRaceNext]_vars

\* what can happen to a channel notification: no channel is configured, the
\* channel is not in the cache, channel.send throws, the message is delivered
NotifyOutcomes == {"noconfig", "nochannel", "sendfail", "sent"}

\* sendNotificationToChannel: whether it throws to its caller and whether
\* the message was delivered
sendNotificationToChannelThrowing(outcome) ==
    [thrown |-> outcome = "sendfail", delivered |-> outcome = "sent"]

sendNotificationToChannel(outcome) ==
    [thrown |-> FALSE, delivered |-> outcome = "sent"]

\* the locals of an invocation of processExpiredSubscriptions that has not
\* started: the documents its query returned (snap, read at the instant at),
\* the _ids its loop has still to handle (todo), the _id in hand (cur), and
\* what happened to the _ids handled: the role revocation threw (failed), the
\* channel notification was not delivered (unnotified), findByIdAndDelete
\* removed the document (deleted) or found none (noop); afterAdd are the _ids
\* deleted after an add command on them had saved, deletedActive those
\* deleted while their expiresAt was in the future, revokedActive those whose
\* role was revoked while their expiresAt was in the future, resumed those
\* the loop took up after the catch block had swallowed a failure
expiryCall ==
    [kind |-> "expiry", pc |-> "query", snap |-> << >>, at |-> 0, todo |-> {},
     cur |-> 0, failed |-> {}, unnotified |-> {}, deleted |-> {}, noop |-> {},
     afterAdd |-> {}, deletedActive |-> {}, revokedActive |-> {},
     resumed |-> {}]

\* the pc of an invocation whose loop has the _ids of todo left
nextExpired(todo) == IF todo = {} THEN "done" ELSE "revoke"

\* the same after the catch block inside the loop
nextExpiredAfterCatch(todo) == IF afterCatch(todo) = "done" THEN "done" ELSE "revoke"

\* processExpiredSubscriptions, the query
expQuery(p) ==
    /\ procs[p].kind = "expiry" /\ procs[p].pc = "query"
    /\ procs' = [procs EXCEPT ![p] =
                    [@ EXCEPT !.pc = nextExpired(getExpiredSubscriptions(store, now)),
                              !.snap = store, !.at = now,
                              !.todo = getExpiredSubscriptions(store, now)]]
    /\ UNCHANGED <<now, store, holders, ret, sent>>

\* the loop body up to roles.remove: the member fetch, and the revocation
\* when the member holds the role; a throwing roles.remove ends the
\* iteration in the catch block
expRevoke(p) ==
    /\ procs[p].kind = "expiry" /\ procs[p].pc = "revoke"
    /\ \E k \in procs[p].todo, memberFound \in BOOLEAN, revokeOk \in BOOLEAN :
          LET u == procs[p].snap[k].discordId
              active == HasRec(store, k) /\ store[k].expiresAt > now
          IN IF memberFound /\ u \in holders
             THEN IF revokeOk
                  THEN /\ holders' = holders \ {u}
                       /\ procs' = [procs EXCEPT ![p] =
                              [@ EXCEPT !.pc = "notify", !.cur = k,
                                        !.resumed = IF procs[p].failed = {}
                                                    THEN @ ELSE @ \cup {k},
                                        !.revokedActive =
                                            IF active THEN @ \cup {k} ELSE @]]
                  ELSE /\ holders' = holders
                       /\ procs' = [procs EXCEPT ![p] =
                              [@ EXCEPT !.pc = nextExpiredAfterCatch(procs[p].todo \ {k}),
                                        !.todo = @ \ {k},
                                        !.resumed = IF procs[p].failed = {}
                                                    THEN @ ELSE @ \cup {k},
                                        !.failed = @ \cup {k}]]
             ELSE /\ holders' = holders
                  /\ procs' = [procs EXCEPT ![p] =
                         [@ EXCEPT !.pc = "delete", !.cur = k,
                                   !.resumed = IF procs[p].failed = {}
                                               THEN @ ELSE @ \cup {k}]]
    /\ UNCHANGED <<now, store, ret, sent>>

\* the loop body, sendNotificationToChannel(client, 'expired', ...)
expNotify(p) ==
    /\ procs[p].kind = "expiry" /\ procs[p].pc = "notify"
    /\ \E outcome \in NotifyOutcomes :
          LET r == sendNotificationToChannel(outcome)
              k == procs[p].cur
          IN procs' = [procs EXCEPT ![p] =
                 [@ EXCEPT !.pc = IF r.thrown
                                  THEN nextExpiredAfterCatch(procs[p].todo \ {k})
                                  ELSE "delete",
                           !.todo = IF r.thrown THEN @ \ {k} ELSE @,
                           !.cur = IF r.thrown THEN 0 ELSE @,
                           !.unnotified = IF r.delivered THEN @ ELSE @ \cup {k}]]
    /\ UNCHANGED <<now, store, holders, ret, sent>>

\* the loop body, Subscription.findByIdAndDelete(subscription._id)
expDeleteKeeps(p) ==
    /\ procs[p].kind = "expiry" /\ procs[p].pc = "delete"
    /\ LET k == procs[p].cur
       IN procs' = [procs EXCEPT ![p] =
              [@ EXCEPT !.pc = nextExpired(procs[p].todo \ {k}),
                        !.todo = @ \ {k},
                        !.cur = 0,
                        !.deleted = @ \cup {k}]]
    /\ UNCHANGED <<now, store, holders, ret, sent>>

expDelete(p) ==
    /\ procs[p].kind = "expiry" /\ procs[p].pc = "delete"
    /\ LET k == procs[p].cur
           found == HasRec(store, k)
       IN /\ store' = [store EXCEPT ![k] = NoRec]
          /\ procs' = [procs EXCEPT ![p] =
                 [@ EXCEPT !.pc = nextExpired(procs[p].todo \ {k}),
                           !.todo = @ \ {k},
                           !.cur = 0,
                           !.deleted = IF found THEN @ \cup {k} ELSE @,
                           !.noop = IF found THEN @ ELSE @ \cup {k},
                           !.afterAdd =
                               IF \E q \in DOMAIN procs :
                                      /\ procs[q].kind = "add"
                                      /\ procs[q].pc = "done"
                                      /\ procs[q].key = k
                               THEN @ \cup {k} ELSE @,
                           !.deletedActive =
                               IF found /\ store[k].expiresAt > now
                               THEN @ \cup {k} ELSE @]]
    /\ UNCHANGED <<now, holders, ret, sent>>

\* two subscribers whose records, created at minute 0, have just expired and
\* who hold the role; the expiry sweep, an add command and a remove command
\* are about to run
ExpiryRaceInit ==
    \E k \in RaceMonths, ua \in RaceUsers, ur \in RaceUsers, m \in RaceMonths,
       d \in 0..Slack :
        /\ now = addMonths(0, k) + d
        /\ store = <<[discordId |-> "u1"] @@ newDoc(0, k),
                     [discordId |-> "u2"] @@ newDoc(0, k)>>
        /\ holders = RaceUsers
        /\ ret = [op |-> "init"]
        /\ sent = << >>
        /\ procs = [p \in {"e1", "a1", "r1"} |->
                        IF p = "e1" THEN expiryCall
                        ELSE IF p = "a1" THEN addCall(ua, m)
                        ELSE removeCall(ur)]

ExpiryRaceNext ==
    \/ \E p \in DOMAIN procs : expQuery(p)
    \/ \E p \in DOMAIN procs : expRevoke(p)
    \/ \E p \in DOMAIN procs : expNotify(p)
    \/ \E p \in DOMAIN procs : expDelete(p)
    \/ \E p \in DOMAIN procs : addFindOne(p)
    \/ \E p \in DOMAIN procs : addSave(p)
    \/ \E p \in DOMAIN procs : remLookup(p)
    \/ \E p \in DOMAIN procs : remRevoke(p)
    \/ \E p \in DOMAIN procs : remDelete(p)

ExpiryRaceSpec == ExpiryRaceInit /\ [][ExpiryRaceNext]_vars

\* two subscribers whose records were created at minute 0, the clock just
\* before their 1-day window; one invocation of the warning sweep and one of
\* the expiry sweep are about to run
BatchInit ==
    \E k \in MonthsIn :
        /\ now = WindowOpen("1day", addMonths(0, k)) - Slack
        /\ now <= MaxNow
        /\ store = <<[discordId |-> "u1"] @@ newDoc(0, k),
                     [discordId |-> "u2"] @@ newDoc(0, k)>>
        /\ holders = RaceUsers
        /\ ret = [op |-> "init"]
        /\ sent = << >>
        /\ procs = [p \in {"w1", "e1"} |->
                        IF p = "w1" THEN warnCall ELSE expiryCall]

BatchNext ==
    \/ Advance
    \/ \E p \in DOMAIN procs : warnQuery(p)
    \/ \E p \in DOMAIN procs : warnSend(p)
    \/ \E p \in DOMAIN procs : warnMark(p)
    \/ \E p \in DOMAIN procs : expQuery(p)
    \/ \E p \in DOMAIN procs : expRevoke(p)
    \/ \E p \in DOMAIN procs : expNotify(p)
    \/ \E p \in DOMAIN procs : expDelete(p)

BatchSpec == BatchInit /\ [][BatchNext]_vars

\* a subscriber whose record, created at minute 0, is in one of its warning
\* windows; the warning sweep, an add command and a remove command for the
\* subscriber are about to run
WarnCommandInit ==
    \E k \in RaceMonths, m \in RaceMonths, kind \in {"1day", "30minutes"},
       d \in 0..Slack :
        /\ now = WindowOpen(kind, addMonths(0, k)) + d
        /\ store = <<[discordId |-> "u1"] @@ newDoc(0, k)>>
        /\ holders = {"u1"}
        /\ ret = [op |-> "init"]
        /\ sent = << >>
        /\ procs = [p \in {"w1", "a1", "r1"} |->
                        IF p = "w1" THEN warnCall
                        ELSE IF p = "a1" THEN addCall("u1", m)
                        ELSE removeCall("u1")]

\* the calls run within one minute of the clock
WarnCommandNext ==
    \/ \E p \in DOMAIN procs : warnQuery(p)
    \/ \E p \in DOMAIN procs : warnSend(p)
    \/ \E p \in DOMAIN procs : warnMark(p)
    \/ \E p \in DOMAIN procs : addFindOne(p)
    \/ \E p \in DOMAIN procs : addSave(p)
    \/ \E p \in DOMAIN procs : remLookup(p)
    \/ \E p \in DOMAIN procs : remRevoke(p)
    \/ \E p \in DOMAIN procs : remDelete(p)

WarnCommandSpec == WarnCommandInit /\ [][WarnCommandNext]_vars

\* the guildMemberUpdate handler's test: the subscription role was held
\* before the update and is not held after it
roleChanged(hadRole, hasRole) == hadRole # hasRole

roleLost(hadRole, hasRole) == hadRole /\ ~hasRole

\* the locals of a guildMemberUpdate handler whose event has not arrived:
\* the member updated, what the old and the new member say about the role,
\* the _id getSubscriptionStatus found, and what became of the call
\* ("ignored": the role was not lost, "norecord", or what
\* removeSubscription returned)
updateCall ==
    [kind |-> "update", pc |-> "wait", user |-> "none", hadRole |-> FALSE,
     hasRole |-> FALSE, key |-> 0, result |-> "none"]

\* somebody takes the role from a member by hand
manualRoleRemove ==
    /\ \E u \in holders : holders' = holders \ {u}
    /\ UNCHANGED <<now, store, ret, sent, procs>>

\* a member update arrives: the new member carries the roles of the moment,
\* the old member whatever the cache held; the handler returns at once
\* unless the role was lost
guildMemberUpdate(p) ==
    /\ procs[p].kind = "update" /\ procs[p].pc = "wait"
    /\ \E u \in RaceUsers, hadRole \in BOOLEAN :
          LET hasRole == u \in holders IN
          procs' = [procs EXCEPT ![p] =
              [@ EXCEPT !.user = u, !.hadRole = hadRole, !.hasRole = hasRole,
                        !.pc = IF roleLost(hadRole, hasRole) THEN "lookup" ELSE "done",
                        !.result = IF roleLost(hadRole, hasRole) THEN "none" ELSE "ignored"]]
    /\ UNCHANGED <<now, store, holders, ret, sent>>

\* the handler, getSubscriptionStatus(newMember.id)
updLookup(p) ==
    /\ procs[p].kind = "update" /\ procs[p].pc = "lookup"
    /\ LET k == findOne(store, procs[p].user) IN
          procs' = [procs EXCEPT ![p] =
              IF k = 0 THEN [@ EXCEPT !.pc = "done", !.result = "norecord"]
              ELSE [@ EXCEPT !.pc = "delete", !.key = k]]
    /\ UNCHANGED <<now, store, holders, ret, sent>>

\* the handler, removeSubscription(newMember.id)
updDelete(p) ==
    /\ procs[p].kind = "update" /\ procs[p].pc = "delete"
    /\ LET r == findOneAndDelete(store, procs[p].user) IN
          /\ store' = r.store
          /\ procs' = [procs EXCEPT ![p] =
                          [@ EXCEPT !.pc = "done",
                                    !.result = IF r.removed THEN "true" ELSE "false"]]
    /\ UNCHANGED <<now, holders, ret, sent>>

\* two subscribers whose records, created at minute 0, have just expired and
\* who hold the role; the expiry sweep and a remove command are about to run
\* and a member update is about to arrive
MemberUpdateInit ==
    \E k \in RaceMonths, ur \in RaceUsers, d \in 0..Slack :
        /\ now = addMonths(0, k) + d
        /\ store = <<[discordId |-> "u1"] @@ newDoc(0, k),
                     [discordId |-> "u2"] @@ newDoc(0, k)>>
        /\ holders = RaceUsers
        /\ ret = [op |-> "init"]
        /\ sent = << >>
        /\ procs = [p \in {"e1", "m1", "r1"} |->
                        IF p = "e1" THEN expiryCall
                        ELSE IF p = "m1" THEN updateCall
                        ELSE removeCall(ur)]

MemberUpdateNext ==
    \/ manualRoleRemove
    \/ \E p \in DOMAIN procs : guildMemberUpdate(p)
    \/ \E p \in DOMAIN procs : updLookup(p)
    \/ \E p \in DOMAIN procs : updDelete(p)
    \/ \E p \in DOMAIN procs : expQuery(p)
    \/ \E p \in DOMAIN procs : expRevoke(p)
    \/ \E p \in DOMAIN procs : expNotify(p)
    \/ \E p \in DOMAIN procs : expDelete(p)
    \/ \E p \in DOMAIN procs : remLookup(p)
    \/ \E p \in DOMAIN procs : remRevoke(p)
    \/ \E p \in DOMAIN procs : remDelete(p)

MemberUpdateSpec == MemberUpdateInit /\ [][MemberUpdateNext]_vars

(* ------------------------- warnings and their flags ------------------- *)

\* the window of the given kind of the record of u has closed
WindowPassed(kind, u) ==
    HasRec(store, u) /\ now > WindowClose(kind, store[u].expiresAt)

\* C11 (as claimed): with the warning sweep ticking every 5 minutes, each
\* evaluated shortly after its tick, every record that is not extended has been
\* selected for the 30-minute warning and for the 1-day warning by the time a
\* sweep runs after the window of that warning has closed.
C11_EveryWindowMeetsASweep ==
    ret.op = "warn" =>
        \A u \in DOMAIN store : \A kind \in {"1day", "30minutes"} :
            WindowPassed(kind, u) => SentCount(sent, u, kind, store[u].expiresAt) >= 1

\* the instant t lies in the eligibility window of the kind for the expiry e
InWindow(kind, e, t) == WindowOpen(kind, e) <= t /\ t <= WindowClose(kind, e)

\* the flag of the kind on a document
Notified(kind, doc) ==
    IF kind = "1day" THEN doc.notified1Day ELSE doc.notified30Minutes

\* what one run of the warning sweep recorded for the kind
SweepSelected(r, kind) == IF kind = "1day" THEN r.sel1 ELSE r.sel30

SweepSent(r, kind) == IF kind = "1day" THEN r.sent1 ELSE r.sent30

SweepMarked(r, kind) == IF kind = "1day" THEN r.marked1 ELSE r.marked30

\* C12: when a warning is sent and the flag update after it fails, the flag
\* stays false; and a warning sweep that runs while the record is inside the
\* window, warned before and still unflagged, selects the record for the
\* warning again.
C12_ResendAfterFailedUpdate ==
    [][ret'.op = "warn" =>
          \A u \in DOMAIN store : \A kind \in {"1day", "30minutes"} :
              /\ u \in SweepSent(ret', kind) \ SweepMarked(ret', kind)
                    => Notified(kind, store'[u]) = FALSE
              /\ ( /\ HasRec(store, u)
                   /\ Notified(kind, store[u]) = FALSE
                   /\ SentCount(sent, u, kind, store[u].expiresAt) >= 1
                   /\ InWindow(kind, store[u].expiresAt, now) )
                    => u \in SweepSelected(ret', kind)]_vars

\* a second 1-day warning about the same expiry has just been delivered
C12_Witness ==
    /\ ret.op = "warn"
    /\ \E u \in ret.sent1 : SentCount(sent, u, "1day", store[u].expiresAt) = 2

\* C13: a warning sweep that runs while a record is inside its 1-day window
\* with notified1Day already set by an earlier sweep skips the record and
\* sends nothing to it: the one warning of the earlier sweep stays the only one.
C13_SecondSweepSkips ==
    [][ret'.op = "warn" =>
          \A u \in DOMAIN store :
              ( /\ HasRec(store, u)
                /\ store[u].notified1Day = TRUE
                /\ InWindow("1day", store[u].expiresAt, now) )
              => /\ u \notin ret'.sel1
                 /\ u \notin ret'.sent1
                 /\ SentCount(sent', u, "1day", store[u].expiresAt)
                       = SentCount(sent, u, "1day", store[u].expiresAt)]_vars

\* a sweep has run on a record that is inside its 1-day window, was flagged
\* before the sweep and has been sent exactly one 1-day warning
C13_Witness ==
    /\ ret.op = "warn"
    /\ \E u \in DOMAIN store :
          /\ ret.pre[u] # NoRec
          /\ ret.pre[u].notified1Day = TRUE
          /\ InWindow("1day", ret.pre[u].expiresAt, now)
          /\ SentCount(sent, u, "1day", ret.pre[u].expiresAt) = 1

\* the other of the two kinds of warning
OtherKind(kind) == IF kind = "1day" THEN "30minutes" ELSE "1day"

\* the query of the kind selects u from the store st at the instant t
Eligible(kind, st, u, t) ==
    IF kind = "1day" THEN u \in getSubscriptionsExpiringIn1Day(st, t)
                     ELSE u \in getSubscriptionsExpiringIn30Minutes(st, t)

\* C16: a warning sweep that sends one kind of warning to a record and sets
\* its flag leaves the flag of the other kind as it was, and the record is
\* eligible for the other kind at exactly the instants at which it was
\* eligible before.
C16_WarningsIndependent ==
    ret.op = "warn" =>
        \A u \in DOMAIN store : \A kind \in {"1day", "30minutes"} :
            u \in SweepMarked(ret, kind) =>
                /\ Notified(kind, store[u]) = TRUE
                /\ Notified(OtherKind(kind), store[u]) = Notified(OtherKind(kind), ret.pre[u])
                /\ \A t \in WindowOpen("1day", store[u].expiresAt)..store[u].expiresAt :
                      Eligible(OtherKind(kind), store, u, t)
                          = Eligible(OtherKind(kind), ret.pre, u, t)

\* the 1-day warning has been sent and flagged while the 30-minute flag is
\* unset
C16_Witness ==
    /\ ret.op = "warn"
    /\ \E u \in ret.marked1 : store[u].notified1Day /\ ~store[u].notified30Minutes

(* --------------------------- interleaved calls ------------------------- *)

\* the subscribers that calls in flight and stored documents name
Subscribers ==
    {store[k].discordId : k \in {j \in DOMAIN store : HasRec(store, j)}}
        \cup {procs[p].user : p \in {q \in DOMAIN procs : procs[q].kind \in {"add", "remove"}}}

\* C19: in every reachable state the store holds at most one record per
\* subscriber id, also after two addSubscription calls for the same
\* not-yet-subscribed id whose lookups both completed before either save.
C19_OneRecordPerSubscriber ==
    \A u \in Subscribers : Cardinality(docsOf(store, u)) <= 1

\* both calls looked up before either saved and found no record; both have
\* saved: one created the record, the other was rejected by the unique index
C19_Witness ==
    /\ \A p \in DOMAIN procs : procs[p].kind = "add" /\ procs[p].pc = "done" /\ procs[p].key = 0
    /\ \E p \in DOMAIN procs, q \in DOMAIN procs :
          procs[p].result = "created" /\ procs[q].result = "duplicate"

\* C20 (as claimed): two completed addSubscription calls with m1 and m2 months
\* on the same existing record with expiry T and months k leave
\* expiresAt = T + 30 * (m1 + m2) days and months = k + m1 + m2, also when
\* both looked the record up before either saved.
C20_ExtensionsAddUp ==
    ( /\ DOMAIN procs = {"a1", "a2"}
      /\ \A p \in DOMAIN procs :
            procs[p].kind = "add" /\ procs[p].pc = "done" /\ procs[p].result = "extended" )
    => LET key == procs["a1"].key
           T == Minimum({procs["a1"].doc.expiresAt, procs["a2"].doc.expiresAt})
           k == Minimum({procs["a1"].doc.months, procs["a2"].doc.months})
       IN /\ store[key].expiresAt = addMonths(T, procs["a1"].months + procs["a2"].months)
          /\ store[key].months = k + procs["a1"].months + procs["a2"].months

\* the invocations of the warning sweep in flight or finished
Sweeps == {p \in DOMAIN procs : procs[p].kind = "warn"}

\* C14 (as claimed): when every flag update succeeds, each kind of warning is
\* sent at most once per record and expiresAt value, also when an invocation
\* of the sweep starts while another is still running.
C14_AtMostOnce ==
    (\A p \in Sweeps : ~procs[p].failed) => \A x \in DOMAIN sent : sent[x] <= 1

\* C14 (amended): when every flag update succeeds and no invocation of the
\* sweep starts while another is still running, each kind of warning is sent
\* at most once per record and expiresAt value.
C14_AtMostOnceNoOverlap ==
    (\A p \in Sweeps : ~procs[p].failed /\ ~procs[p].overlapped)
        => \A x \in DOMAIN sent : sent[x] <= 1

\* two invocations ran one after the other inside the 1-day window of the
\* record: the first sent the warning and set the flag, the second found the
\* flag set
C14_Witness ==
    /\ \A p \in Sweeps : procs[p].pc = "done" /\ ~procs[p].failed /\ ~procs[p].overlapped
    /\ \E p \in Sweeps, k \in DOMAIN store :
          /\ HasRec(store, k)
          /\ k \in DOMAIN procs[p].snap
          /\ procs[p].snap[k].notified1Day = TRUE
          /\ InWindow("1day", procs[p].snap[k].expiresAt, procs[p].at)
          /\ SentCount(sent, store[k].discordId, "1day", procs[p].snap[k].expiresAt) = 1

\* C15 (as claimed): in every reachable state a flag of a record is true only
\* if a warning of its kind has been sent about the record's current
\* expiresAt, also when an extension runs between the query, the send and the
\* flag update of a warning sweep.
C15_FlagImpliesWarned ==
    \A k \in DOMAIN store : \A kind \in {"1day", "30minutes"} :
        (HasRec(store, k) /\ Notified(kind, store[k]) = TRUE)
            => SentCount(sent, store[k].discordId, kind, store[k].expiresAt) >= 1

\* C17: removeSubscription(userId) deletes the record of userId and returns
\* true when there is one; when there is none it returns false and leaves
\* the store unchanged; afterwards no record of userId exists and the record
\* of every other subscriber is as it was.
C17_RemoveDeletesOnlyThatRecord ==
    [][\A p \in DOMAIN procs :
          (procs[p].kind = "remove" /\ procs[p].pc = "delete" /\ procs'[p].pc = "done")
          => LET u == procs[p].user IN
             /\ docsOf(store, u) # {} => procs'[p].result = "true"
             /\ docsOf(store, u) = {} => procs'[p].result = "false" /\ store' = store
             /\ docsOf(store', u) = {}
             /\ \A k \in DOMAIN store :
                   (HasRec(store, k) /\ store[k].discordId # u) => store'[k] = store[k]]_vars

\* two remove commands for the same subscriber both found the record; one
\* call of removeSubscription returned true, the other false, and the record
\* of the other subscriber is still stored
C17_Witness ==
    \E p \in DOMAIN procs, q \in DOMAIN procs :
        /\ procs[p].kind = "remove" /\ procs[q].kind = "remove"
        /\ procs[p].user = procs[q].user
        /\ procs[p].result = "true" /\ procs[q].result = "false"
        /\ \E k \in DOMAIN store : HasRec(store, k) /\ store[k].discordId # procs[p].user

\* the calls of getSubscriptionStats that have returned
StatsDone == {p \in DOMAIN procs : procs[p].kind = "stats" /\ procs[p].pc = "done"}

\* C18 (as claimed): getSubscriptionStats returns active + expired = total,
\* also when the clock advances or other operations change the store between
\* the three count queries.
C18_StatsAddUp ==
    \A p \in StatsDone : procs[p].active + procs[p].expired = procs[p].total

\* C18 (amended): getSubscriptionStats returns active + expired = total when
\* the three count queries see the same store and the two new Date() values
\* of the active and the expired query are the same instant.
C18_StatsAddUpOnOneStore ==
    \A p \in StatsDone :
        (procs[p].stable /\ procs[p].dActive = procs[p].dExpired)
            => procs[p].active + procs[p].expired = procs[p].total

\* a call returned after its three queries saw one store, holding an active
\* and an expired record, at one instant
C18_Witness ==
    \E p \in StatsDone :
        /\ procs[p].stable /\ procs[p].dActive = procs[p].dExpired
        /\ procs[p].active = 1 /\ procs[p].expired = 1 /\ procs[p].total = 2

(* ------------------------ records and the commands -------------------- *)

\* C24: every stored record has expiresAt > startAt, and no step changes the
\* startAt of a record that stays in the store (extensions and warning
\* sweeps leave it as the creation set it), every add using months in 1..10.
C24_StartFixedExpiryAfter ==
    /\ [](\A u \in DOMAIN store :
             HasRec(store, u) => store[u].expiresAt > store[u].startAt)
    /\ [][\A u \in DOMAIN store :
             (HasRec(store, u) /\ HasRec(store', u))
                 => store'[u].startAt = store[u].startAt]_vars

\* a record has been extended some time after its creation and its startAt
\* is the one it had
C24_Witness ==
    /\ AddCalled /\ ret.ok /\ ~ret.isNew
    /\ store[ret.user].startAt = ret.pre.startAt
    /\ store[ret.user].startAt < now
    /\ store[ret.user].expiresAt > ret.pre.expiresAt

\* C25: when a step of the add command after the store write fails (the role
\* is not found, the role grant throws, the channel notification is not
\* delivered), the store is as addSubscription wrote it: the created or
\* extended record is not rolled back.
C25_NoRollback ==
    (AddCalled /\ ret.outcome \in {"norole", "grantfail", "notifyfail"})
        => LET before == [store EXCEPT ![ret.user] = ret.pre]
               written == addSubscription(before, ret.user, ret.months, now)
           IN /\ store = written.store
              /\ ret.ok => /\ HasRec(store, ret.user)
                           /\ store[ret.user].months
                                  = (IF ret.isNew THEN 0 ELSE ret.pre.months) + ret.months

\* the role grant threw after addSubscription created the record: the
\* subscriber has the record and not the role
C25_Witness ==
    /\ AddCalled /\ ret.ok /\ ret.isNew /\ ret.outcome = "grantfail"
    /\ HasRec(store, ret.user)
    /\ ret.user \notin holders

\* C28: the status command reports ACTIVE exactly when expiresAt > now and
\* EXPIRED exactly when expiresAt <= now, the boundary of isActive, findActive
\* and findExpired (which the stats counts use), and changes no record.
C28_StatusDerived ==
    ret.op = "status" =>
        /\ store = ret.pre
        /\ ~HasRec(store, ret.user) => ret.status = "none"
        /\ HasRec(store, ret.user) =>
              /\ ret.status = "ACTIVE" <=> store[ret.user].expiresAt > now
              /\ ret.status = "EXPIRED" <=> store[ret.user].expiresAt <= now
              /\ ret.status = "ACTIVE" <=> isActive(store[ret.user], now)
              /\ ret.status = "ACTIVE" <=> ret.user \in findActive(store, now)
              /\ ret.status = "EXPIRED" <=> ret.user \in findExpired(store, now)

\* the status of a record is asked at the very instant it expires
C28_Witness ==
    /\ ret.op = "status"
    /\ HasRec(store, ret.user)
    /\ store[ret.user].expiresAt = now
    /\ ret.status = "EXPIRED"

\* C23 (as claimed): addSubscription called with months outside 1..10, on
\* the creation path or on the extension path, fails with a validation error
\* and leaves the store as it was.
C23_BadMonthsRejected ==
    (AddCalled /\ ret.months \notin MinMonths..MaxMonths)
        => ~ret.ok /\ store[ret.user] = ret.pre

\* C30 (as claimed): whenever addSubscription returns successfully with
\* months in 1..10, the returned record is active (expiresAt > now), also on
\* the extension path when the existing record is expired and unswept.
C30_AddedRecordActive ==
    (AddCalled /\ ret.ok /\ ret.months \in MinMonths..MaxMonths)
        => isActive(store[ret.user], now)

\* C30 (amended): whenever addSubscription returns successfully with months
\* in 1..10, the returned record is active on the creation path; on the
\* extension path it is active exactly when the previous expiry plus
\* 30 * months days is later than now, so always when the existing record
\* had not expired.
C30_ActiveUnlessLongExpired ==
    (AddCalled /\ ret.ok /\ ret.months \in MinMonths..MaxMonths)
        => /\ ret.isNew => isActive(store[ret.user], now)
           /\ ~ret.isNew =>
                 /\ isActive(store[ret.user], now)
                       <=> addMonths(ret.oldExpiry, ret.months) > now
                 /\ ret.oldExpiry > now => isActive(store[ret.user], now)

\* an expired record has been extended and is active again
C30_Witness ==
    /\ AddCalled /\ ret.ok /\ ~ret.isNew
    /\ ret.oldExpiry <= now
    /\ isActive(store[ret.user], now)

(* ------------------------- the expiry sweep among the commands --------- *)

\* the _ids the query of the expiry sweep e1 returned
Selected == {k \in DOMAIN procs["e1"].snap :
                /\ HasRec(procs["e1"].snap, k)
                /\ procs["e1"].snap[k].expiresAt <= procs["e1"].at}

\* the _ids whose findByIdAndDelete the sweep e1 has been through
Swept == procs["e1"].deleted \cup procs["e1"].noop

\* C21: when an extension and an expiry sweep act on the same subscriber (no
\* remove command running), neither fails because of the race, the extended
\* record is present if the add's save came last and the record is absent if
\* the sweep's delete came last.
C21_LastWriteWins ==
    LET a == procs["a1"] e == procs["e1"] IN
    (/\ procs["r1"].pc = "lookup"
     /\ a.pc = "done" /\ a.key # 0
     /\ e.pc = "done" /\ a.key \in Swept)
        => /\ a.result = "extended"
           /\ a.key \in e.afterAdd => ~HasRec(store, a.key)
           /\ a.key \notin e.afterAdd =>
                 /\ HasRec(store, a.key)
                 /\ store[a.key].expiresAt = addMonths(a.doc.expiresAt, a.months)

\* C22: when a remove command and the expiry sweep have both been through
\* their delete of the same subscriber's record (no add command on that
\* subscriber), exactly one of the two deletes removed it, the other found
\* nothing and raised no error, the record is absent, and the sweep has
\* handled every other record of its batch.
C22_OneDeleteWins ==
    LET r == procs["r1"] e == procs["e1"] IN
    \A k \in Selected :
        (/\ e.snap[k].discordId = r.user
         /\ procs["a1"].user # r.user
         /\ r.pc = "done" /\ r.result \in {"true", "false"}
         /\ e.pc = "done" /\ k \in Swept)
            => /\ (r.result = "true") # (k \in e.deleted)
               /\ (r.result = "false") # (k \in e.noop)
               /\ ~HasRec(store, k)
               /\ Selected \ {k} \subseteq Swept \cup e.failed

\* the remove command lost the race to the sweep, or the sweep to the remove
\* command, and the sweep went on to delete the other subscriber's record
C22_Witness ==
    LET r == procs["r1"] e == procs["e1"] IN
    \E k \in Selected :
        /\ e.snap[k].discordId = r.user
        /\ procs["a1"].user # r.user
        /\ r.pc = "done" /\ r.result = "true"
        /\ e.pc = "done" /\ k \in e.noop
        /\ e.deleted # {}

\* C27: a channel notification that is not delivered raises nothing to its
\* caller and changes no record or role: in the expiry sweep the record
\* whose 'expired' notification failed goes on to its deletion.
C27_NotificationFailureSwallowed ==
    /\ [](\A k \in procs["e1"].unnotified :
             \/ procs["e1"].pc = "delete" /\ procs["e1"].cur = k
             \/ k \in Swept)
    /\ [][(procs["e1"].pc = "notify" /\ procs["e1"].pc' # "notify")
              => (store' = store /\ holders' = holders)]_vars

\* the sweep has deleted a record whose notification was not delivered
C27_Witness ==
    /\ procs["e1"].pc = "done"
    /\ procs["e1"].unnotified \cap procs["e1"].deleted # {}

\* C29 (as claimed): the expiry sweep deletes a record and revokes its role
\* only if the record's expiresAt is <= now at the moment of the delete or
\* of the revocation.
C29_DeletesOnlyExpired ==
    procs["e1"].deletedActive = {} /\ procs["e1"].revokedActive = {}

\* C29 (amended): the expiry sweep deletes and revokes only records that its
\* query selected, that is, whose expiresAt was <= now at the query.
C29_DeletesOnlySelected ==
    LET e == procs["e1"] IN
    /\ e.deleted \cup e.noop \cup e.failed \cup e.todo \subseteq Selected
    /\ e.cur # 0 => e.cur \in Selected
    /\ e.deletedActive \cup e.revokedActive \subseteq Selected

\* the sweep has deleted a record that an add command had extended to a
\* future expiresAt after the sweep's query
C29_Witness ==
    /\ procs["e1"].pc = "done"
    /\ procs["e1"].deletedActive # {}
    /\ procs["a1"].result = "extended"

(* ------------------------- a failure inside a batch -------------------- *)

\* the <<_id, kind>> pairs the queries of the warning sweep w1 returned
WarnSelected ==
    {<<k, "1day">> : k \in getSubscriptionsExpiringIn1Day(procs["w1"].snap, procs["w1"].at)}
    \cup {<<k, "30minutes">> :
              k \in getSubscriptionsExpiringIn30Minutes(procs["w1"].snap, procs["w1"].at)}

\* C26: in either sweep a failure on one record does not stop the sweep: a
\* sweep that has returned has no record of its batch left, the warning
\* sweep having set the flag of every pair whose iteration did not fail, the
\* expiry sweep having been through the delete of every record whose
\* revocation did not fail.
C26_FailureDoesNotStopSweep ==
    LET w == procs["w1"] e == procs["e1"] IN
    /\ w.pc = "done" =>
          /\ w.todo = {}
          /\ \A x \in WarnSelected :
                x \in w.caught \/ (HasRec(store, x[1]) => Notified(x[2], store[x[1]]))
    /\ e.pc = "done" =>
          /\ e.todo = {}
          /\ Selected \subseteq Swept \cup e.failed

\* both sweeps have returned, each after a failure on one record of its
\* batch and having gone on to another one
C26_Witness ==
    LET w == procs["w1"] e == procs["e1"] IN
    /\ w.pc = "done" /\ w.caught # {} /\ w.resumed \ w.caught # {}
    /\ e.pc = "done" /\ e.failed # {} /\ e.resumed \cap e.deleted # {}

(* ------------------------- what the warning sweep writes --------------- *)

\* the step is one of the warning sweep w1
WarnStep == procs["w1"]' # procs["w1"]

\* from st to st2 no record appeared or disappeared and nothing changed in a
\* record but a notification flag, from false to true
OnlyFlagsSet(st, st2) ==
    /\ DOMAIN st2 = DOMAIN st
    /\ \A k \in DOMAIN st :
          /\ HasRec(st2, k) <=> HasRec(st, k)
          /\ HasRec(st, k) =>
                /\ [st2[k] EXCEPT !.notified1Day = FALSE, !.notified30Minutes = FALSE]
                      = [st[k] EXCEPT !.notified1Day = FALSE, !.notified30Minutes = FALSE]
                /\ st[k].notified1Day => st2[k].notified1Day
                /\ st[k].notified30Minutes => st2[k].notified30Minutes

\* C31: every step of the warning sweep leaves every record as it was apart
\* from a notification flag going from false to true; it creates and
\* deletes none, also when its flag update aims at a record deleted since
\* its query.
C31_WarningSweepSetsOnlyFlags ==
    [][WarnStep => (OnlyFlagsSet(store, store') /\ holders' = holders)]_vars

\* the sweep has returned after setting the flag of one record, and after a
\* flag update of it found the record of the other subscriber deleted
C31_Witness ==
    LET w == procs["w1"] IN
    /\ w.pc = "done"
    /\ \E x \in w.missed : ~HasRec(store, x[1])
    /\ \E x \in WarnSelected \ w.missed :
          HasRec(store, x[1]) /\ Notified(x[2], store[x[1]])

(* ------------------------- warnings from a stale query ----------------- *)

\* C32: a warning is sent to a subscriber only if, at the moment of sending,
\* the subscriber has a record whose expiresAt lies in the window of the
\* warning: none goes out for a record removed or extended out of the
\* window since the sweep's query.
C32_WarnedOnlyWhileEligible ==
    procs["w1"].stale = {}

(* ------------------------- the counts of the warning sweep ------------- *)

\* C33: the counts processExpirationWarnings returns (oneDayWarnings,
\* thirtyMinuteWarnings) equal the number of warnings of each kind delivered
\* during the invocation: a record whose send failed is not counted.
C33_CountsAreDeliveries ==
    ret.op = "warn" =>
        /\ ret.oneDayWarnings = Cardinality(ret.sent1)
        /\ ret.thirtyMinuteWarnings = Cardinality(ret.sent30)

(* ------------------------- the order inside the remove command --------- *)

\* C34: in the remove command the record is deleted only after the role
\* revocation succeeded or was not needed; when the revocation fails the
\* record stays as it was and the role stays held; when the subscriber has
\* no record, neither the role nor the store is touched.
C34_RevokeBeforeDelete ==
    ret.op = "remove" =>
        /\ ~HasRec(ret.pre, ret.user) =>
              /\ store = ret.pre
              /\ ret.revoke = "none"
              /\ (ret.user \in holders) = ret.held
        /\ ret.revoke = "failed" => (store = ret.pre /\ ret.user \in holders)
        /\ store # ret.pre =>
              /\ ret.revoke \in {"ok", "notneeded"}
              /\ ret.revoke = "ok" => ret.user \notin holders
              /\ store = [ret.pre EXCEPT ![ret.user] = NoRec]

\* a remove command whose revocation failed has left the record of a role
\* holder in the store
C34_Witness ==
    /\ ret.op = "remove" /\ ret.revoke = "failed"
    /\ HasRec(store, ret.user) /\ ret.user \in holders

(* ------------------------- the member update handler ------------------- *)

\* the step is one of the member update handler m1
UpdateStep == procs["m1"]' # procs["m1"]

\* what the handler m1 has done once it has returned
UpdateOutcome ==
    LET h == procs["m1"] r == procs["r1"] e == procs["e1"] IN
    /\ (h.pc = "done" /\ h.hadRole /\ ~h.hasRole)
          => docsOf(store, h.user) = {}
    /\ (h.pc # "wait" /\ ~(h.hadRole /\ ~h.hasRole))
          => (h.pc = "done" /\ h.result = "ignored")
    /\ h.result = "true" =>
          /\ h.key \notin e.deleted
          /\ (r.user = h.user /\ r.pc = "done") => r.result # "true"

\* C35: a member update that shows the role lost deletes the record the
\* member has; a member update that does not show the role lost changes no
\* record; no step of the handler changes a role; and when the handler has
\* deleted the record after the sweep's or the remove command's own
\* revocation, that operation's own delete removes nothing and raises no
\* error.
C35_RoleLostDeletesRecord ==
    /\ []UpdateOutcome
    /\ [][UpdateStep =>
              /\ holders' = holders
              /\ (procs["m1"].pc # "delete") => store' = store
              /\ (procs["m1"].pc = "delete") =>
                    store' = [store EXCEPT ![procs["m1"].key] = NoRec]]_vars

\* the update caused by the remove command's revocation has deleted the
\* record, the command's own delete has found nothing, and the sweep's
\* delete of the other record went through
C35_Witness ==
    LET h == procs["m1"] r == procs["r1"] e == procs["e1"] IN
    /\ h.pc = "done" /\ h.result = "true"
    /\ r.user = h.user /\ r.pc = "done" /\ r.result = "false"
    /\ e.pc = "done" /\ e.deleted # {} /\ h.key \in e.noop

====
